---- MODULE Spec2Model ----
(***************************************************************************)
(* A model of the YouTube-to-MP3 gateway of src/main.py: the /ymp3 poll    *)
(* loop (download_mp3_from_savenow), the /ytmp3 cache-first flow           *)
(* (download_mp3_from_flvto), GET /cache/{filename}, / and /health.        *)
(* Requests run as asyncio coroutines: a request's code between two awaits *)
(* is one atomic step, and the steps of concurrent requests interleave.    *)
(* Strings whose characters the code inspects (the link, the title, the    *)
(* filename, the identifier) are sequences of one-character strings; the   *)
(* other strings are opaque.                                               *)
(***************************************************************************)
EXTENDS Integers, Sequences, FiniteSets, TLC

(***************************************************************************)
(* Bounds of the model.                                                    *)
(***************************************************************************)
\* Number of requests received in one behaviour.
MaxRequests == 2

\* The request slots: two requests are in flight at the same time at most.
Procs == {1, 2}

(***************************************************************************)
(* Python values.                                                          *)
(***************************************************************************)
\* None, and a dictionary key that is absent (dict.get without a default).
None == "None"
\* Python truthiness of an opaque string: None and "" are falsy.
Truthy(x) == x \notin {None, ""}
\* A JSON object is a function from the keys it has. dict.get(key, default):
Get(d, key, default) == IF key \in DOMAIN d THEN d[key] ELSE default
\* re.search that found nothing / extract_youtube_id returning None, for
\* character sequences (a match of the group is never empty).
NoMatch == <<>>

Min(S) == CHOOSE x \in S : \A y \in S : x <= y
Max(S) == CHOOSE x \in S : \A y \in S : x >= y

(***************************************************************************)
(* extract_youtube_id: ten regular expressions tried in order.             *)
(***************************************************************************)
Lower == <<"a", "b", "c", "d", "e", "f", "g", "h", "i", "j", "k", "l", "m", "n", "o", "p", "q", "r", "s", "t", "u", "v", "w", "x", "y", "z">>
Upper == <<"A", "B", "C", "D", "E", "F", "G", "H", "I", "J", "K", "L", "M", "N", "O", "P", "Q", "R", "S", "T", "U", "V", "W", "X", "Y", "Z">>
Digits == <<"0", "1", "2", "3", "4", "5", "6", "7", "8", "9">>
Range(s) == {s[i] : i \in 1..Len(s)}

\* The class [a-zA-Z0-9_-] of the identifier group.
IdChars == Range(Lower) \cup Range(Upper) \cup Range(Digits) \cup {"_", "-"}
\* The {11} of the identifier group.
IdLen == 11

Lit_youtu_be == <<"y", "o", "u", "t", "u", ".", "b", "e", "/">>
Lit_watch_v == <<"y", "o", "u", "t", "u", "b", "e", ".", "c", "o", "m", "/", "w", "a", "t", "c", "h", "?", "v", "=">>
Lit_v == <<"y", "o", "u", "t", "u", "b", "e", ".", "c", "o", "m", "/", "v", "/">>
Lit_embed == <<"y", "o", "u", "t", "u", "b", "e", ".", "c", "o", "m", "/", "e", "m", "b", "e", "d", "/">>
Lit_shorts == <<"y", "o", "u", "t", "u", "b", "e", ".", "c", "o", "m", "/", "s", "h", "o", "r", "t", "s", "/">>
Lit_www_watch_v == <<"w", "w", "w", ".", "y", "o", "u", "t", "u", "b", "e", ".", "c", "o", "m", "/", "w", "a", "t", "c", "h", "?", "v", "=">>
Lit_m_watch_v == <<"m", ".", "y", "o", "u", "t", "u", "b", "e", ".", "c", "o", "m", "/", "w", "a", "t", "c", "h", "?", "v", "=">>
Lit_watch_q == <<"y", "o", "u", "t", "u", "b", "e", ".", "c", "o", "m", "/", "w", "a", "t", "c", "h", "?">>
Lit_v_eq == <<"v", "=">>

\* The list of patterns, in the order of the source. Each is a literal
\* prefix, the identifier group, and what follows the group: nothing,
\* (?:\?|$), or &. The last pattern has .* and v= between prefix and group.
patterns ==
  << [lit |-> Lit_youtu_be,    mid |-> "",   tail |-> ""],
     [lit |-> Lit_watch_v,     mid |-> "",   tail |-> ""],
     [lit |-> Lit_v,           mid |-> "",   tail |-> ""],
     [lit |-> Lit_embed,       mid |-> "",   tail |-> ""],
     [lit |-> Lit_shorts,      mid |-> "",   tail |-> ""],
     [lit |-> Lit_www_watch_v, mid |-> "",   tail |-> ""],
     [lit |-> Lit_m_watch_v,   mid |-> "",   tail |-> ""],
     [lit |-> Lit_youtu_be,    mid |-> "",   tail |-> "?|$"],
     [lit |-> Lit_watch_v,     mid |-> "",   tail |-> "&"],
     [lit |-> Lit_watch_q,     mid |-> ".*", tail |-> ""] >>

\* The literal lit occurs in s at position i.
LitAt(s, i, lit) ==
  /\ i + Len(lit) - 1 <= Len(s)
  /\ \A k \in 1..Len(lit) : s[i + k - 1] = lit[k]

\* Eleven identifier characters occur in s at position i.
IdAt(s, i) ==
  /\ i + IdLen - 1 <= Len(s)
  /\ \A k \in 0..(IdLen - 1) : s[i + k] \in IdChars

\* What follows the group matches at position i of s ($ matches at the end
\* of the string and before a final newline).
TailAt(s, i, tail) ==
  CASE tail = "" -> TRUE
    [] tail = "&" -> i <= Len(s) /\ s[i] = "&"
    [] tail = "?|$" -> \/ i <= Len(s) /\ s[i] = "?"
                       \/ i = Len(s) + 1
                       \/ i = Len(s) /\ s[i] = "\n"

\* The positions at which the group can start when the pattern matches
\* from position i of s. The . of .* matches every character but a newline.
GroupStarts(pat, s, i) ==
  IF ~LitAt(s, i, pat.lit) THEN {}
  ELSE IF pat.mid = ""
    THEN {g \in {i + Len(pat.lit)} : IdAt(s, g) /\ TailAt(s, g + IdLen, pat.tail)}
    ELSE {g \in (i + Len(pat.lit) + Len(Lit_v_eq))..Len(s) :
            /\ LitAt(s, g - Len(Lit_v_eq), Lit_v_eq)
            /\ IdAt(s, g)
            /\ \A k \in (i + Len(pat.lit))..(g - Len(Lit_v_eq) - 1) : s[k] # "\n"}

\* re.search(pattern, link) followed by match.group(1): the leftmost match,
\* with the greedy .* taking as much as it can.
re_search(pat, s) ==
  LET starts == {i \in 1..Len(s) : GroupStarts(pat, s, i) # {}}
  IN IF starts = {} THEN NoMatch
     ELSE LET g == Max(GroupStarts(pat, s, Min(starts)))
          IN SubSeq(s, g, g + IdLen - 1)

\* The loop that keeps the match of the last pattern that matches.
extract_youtube_id_LastPattern(link) ==
  LET hits == {k \in 1..Len(patterns) : re_search(patterns[k], link) # NoMatch}
  IN IF hits = {} THEN NoMatch ELSE re_search(patterns[Max(hits)], link)

\* for pattern in patterns: the group of the first pattern that matches.
extract_youtube_id(link) ==
  LET hits == {k \in 1..Len(patterns) : re_search(patterns[k], link) # NoMatch}
  IN IF hits = {} THEN NoMatch ELSE re_search(patterns[Min(hits)], link)

(***************************************************************************)
(* The cache filename of a title.                                          *)
(***************************************************************************)
\* A letter outside ASCII (U+00E9), as one character.
Letter_e_acute == "U+00E9"
\* \w and \d of a str pattern: letters, digits and the underscore; the
\* letters and digits are those of Unicode, not of ASCII alone.
WordChars == Range(Lower) \cup Range(Upper) \cup Range(Digits) \cup {"_", Letter_e_acute}
\* The characters [^\w\d\-_.] does not match.
KeptChars == WordChars \cup {"-", "_", "."}
\* The [:200] of the filename.
MaxStem == 200
Ext_mp3 == <<".", "m", "p", "3">>
UnknownTitle == <<"U", "n", "k", "n", "o", "w", "n", " ", "T", "i", "t", "l", "e">>

\* re.sub(r'[^\w\d\-_.]', '_', title)
re_sub(title) == [i \in 1..Len(title) |-> IF title[i] \in KeptChars THEN title[i] ELSE "_"]

\* The replacement repeated until no doubled underscore is left: every run
\* of underscores becomes one underscore.
replace_Repeated(s) ==
  LET kept == {i \in 1..Len(s) : ~(s[i] = "_" /\ i > 1 /\ s[i - 1] = "_")}
      Nth(k) == CHOOSE i \in kept : Cardinality({j \in kept : j <= i}) = k
  IN [k \in 1..Cardinality(kept) |-> s[Nth(k)]]

\* str.replace('__', '_'): one left-to-right pass over non-overlapping pairs,
\* which drops every second underscore of each run of underscores.
replace(s) ==
  LET RunStart(i) == Max({j \in 0..(i - 1) : j = 0 \/ s[j] # "_"}) + 1
      Dropped(i) == s[i] = "_" /\ (i - RunStart(i)) % 2 = 1
      kept == {i \in 1..Len(s) : ~Dropped(i)}
      Nth(k) == CHOOSE i \in kept : Cardinality({j \in kept : j <= i}) = k
  IN [k \in 1..Cardinality(kept) |-> s[Nth(k)]]

\* The title taken as it is, with the extension.
Filename_Raw(title) == title \o Ext_mp3

\* Line 260.
Filename(title) ==
  LET stem == replace(re_sub(title))
  IN SubSeq(stem, 1, IF Len(stem) < MaxStem THEN Len(stem) ELSE MaxStem) \o Ext_mp3

(***************************************************************************)
(* The state. handler, pc and loc are the coroutine of each request slot:  *)
(* which endpoint function runs, the await it is suspended at, and the     *)
(* function's local variables. resp is the response the request ends with. *)
(* cache is the directory CACHE_PATH: a function from the names of the     *)
(* files that exist to their bytes. hist records, for each request, the    *)
(* external calls it has issued so far; it is not read by any action.      *)
(***************************************************************************)
(* referenced is the set of filenames successful /ytmp3 responses have     *)
(* given out so far; it is not read by any action either.                  *)
VARIABLES handler, pc, loc, resp, cache, hist, referenced, nreq

vars == <<handler, pc, loc, resp, cache, hist, referenced, nreq>>

\* A new request takes the first free slot.
Free(p) == handler[p] = "idle" /\ \A q \in Procs : handler[q] = "idle" => p <= q

NoLocals == [none |-> TRUE]
NoResponse == [status |-> 0, message |-> ""]
\* hist of a request: what the client sent (input), the calls issued
\* (submit, poll, sleep, convert, download, exists, open, write), whether
\* the JSON body of the submission or conversion response was parsed
\* (parsed), the number of conditions the last classified progress response
\* did not meet (missing), the link of the response taken as ready
\* (ready_url), how the download call ended (audio), the exception a call
\* of /ymp3 raised (raised), whether the last classified progress response
\* reported a failure (reported) and the bytes the file held when the cache
\* check found it (seen).
NoCalls ==
  [input |-> "", submit |-> 0, poll |-> 0, sleep |-> 0, convert |-> 0, download |-> 0,
   exists |-> 0, open |-> 0, write |-> 0, parsed |-> 0, missing |-> 0,
   ready_url |-> None, audio |-> "", raised |-> "", reported |-> "", seen |-> <<>>]

\* What an awaited network call gives back: a response whose body parses
\* to a JSON object, an httpx.HTTPError raised by the call, or a body
\* response.json() cannot parse (a ValueError, which is no httpx.HTTPError).
Json(d) == [kind |-> "json", data |-> d]
TransportError == [kind |-> "HTTPError"]
BadBody == [kind |-> "ValueError"]

(***************************************************************************)
(* GET /ymp3: download_mp3_from_savenow.                                   *)
(***************************************************************************)
\* max_attempts
max_attempts == 30
\* The threshold of the progress value.
ProgressDone == 1000

\* The query parameters id and link a client may send.
IdParams == {None, "", "ZIlALB1fQVE"}
LinkParams == {None, "", "https://www.youtube.com/watch?v=ZIlALB1fQVE"}
WatchUrl(video_id) == "https://www.youtube.com/watch?v=" \o video_id

\* The JSON objects the submission endpoint may answer with.
FetchData ==
  { [info |-> [title |-> "Info", image |-> "thumb"], progress_url |-> "p1"],
    [title |-> "Song", progress_url |-> ""],
    [title |-> "Song", info |-> [image |-> "thumb"]] }

\* The JSON objects the progress endpoint may answer with: every choice of
\* present keys and of values around the threshold.
SuccessValues == {0, 1}
ProgressValues == {ProgressDone - 1, ProgressDone, ProgressDone + 1}
UrlValues == {"", "d1"}
ProgKeys == {"success", "progress", "download_url"}
ProgData ==
  { [k \in K |-> full[k]] :
      full \in [success : SuccessValues, progress : ProgressValues, download_url : UrlValues],
      K \in SUBSET ProgKeys }

\* The three conditions of the poll loop's if, one by one, and the number
\* of those a progress response does not meet (recorded in hist.missing
\* while the response is the last one classified).
Meets(prog_data, cond) ==
  CASE cond = "success" -> "success" \in DOMAIN prog_data /\ prog_data.success # 0
    [] cond = "progress" -> Get(prog_data, "progress", 0) >= ProgressDone
    [] cond = "download_url" -> Truthy(Get(prog_data, "download_url", None))
Missing(prog_data) == Cardinality({cond \in ProgKeys : ~Meets(prog_data, cond)})
\* What a progress response says of the job, for hist.reported: a failure
\* when its success flag is there and false.
Reported(prog_data) ==
  IF "success" \in DOMAIN prog_data /\ prog_data.success = 0 THEN "failure" ELSE ""

\* The if with > in place of >=.
IsReady_Strict(prog_data) ==
  /\ "success" \in DOMAIN prog_data /\ prog_data.success # 0
  /\ Get(prog_data, "progress", 0) > ProgressDone
  /\ Truthy(Get(prog_data, "download_url", None))

\* if (prog_data.get("success") and prog_data.get("progress", 0) >= 1000
\*     and prog_data.get("download_url")):
IsReady(prog_data) ==
  /\ "success" \in DOMAIN prog_data /\ prog_data.success # 0
  /\ Get(prog_data, "progress", 0) >= ProgressDone
  /\ Truthy(Get(prog_data, "download_url", None))

\* raise HTTPException(status_code, detail={"message": ...})
HTTPException(status_code, message) == [status |-> status_code, message |-> message]
\* An exception no handler catches: the framework answers 500.
Unhandled == [status |-> 500, message |-> "Internal Server Error"]

\* The request of slot p ends with response r.
Done(p, r) ==
  /\ pc' = [pc EXCEPT ![p] = "done"]
  /\ resp' = [resp EXCEPT ![p] = r]

\* while not download_url and wait_count < max_attempts
LoopCond(l) == ~Truthy(l.download_url) /\ l.wait_count < max_attempts

\* What follows the loop without the check of download_url.
AfterLoop_NoTimeout(l) ==
  [status |-> 200, message |-> "MP3 link ready",
   title |-> IF Truthy(l.title) THEN l.title ELSE Get(l.info, "title", ""),
   thumbnail |-> Get(l.info, "image", None),
   download |-> l.download_url,
   waited |-> l.wait_count]

\* The success response counting the fetch that was found ready.
AfterLoop_CountsReadyFetch(l) ==
  IF ~Truthy(l.download_url)
  THEN HTTPException(500, "Conversion timeout - please try again")
  ELSE [status |-> 200, message |-> "MP3 link ready",
        title |-> IF Truthy(l.title) THEN l.title ELSE Get(l.info, "title", ""),
        thumbnail |-> Get(l.info, "image", None),
        download |-> l.download_url,
        waited |-> l.wait_count + 1]

\* Lines 155-170: what follows the loop.
AfterLoop(l) ==
  IF ~Truthy(l.download_url)
  THEN HTTPException(500, "Conversion timeout - please try again")
  ELSE [status |-> 200, message |-> "MP3 link ready",
        title |-> IF Truthy(l.title) THEN l.title ELSE Get(l.info, "title", ""),
        thumbnail |-> Get(l.info, "image", None),
        download |-> l.download_url,
        waited |-> l.wait_count]

\* The head of the loop with locals l and history h: the next progress
\* fetch is issued, or the loop is left.
LoopHead(p, l, h) ==
  /\ loc' = [loc EXCEPT ![p] = l]
  /\ IF LoopCond(l)
     THEN /\ pc' = [pc EXCEPT ![p] = "poll"]
          /\ hist' = [hist EXCEPT ![p] = [h EXCEPT !.poll = @ + 1, !.missing = 0,
                                                    !.reported = ""]]
          /\ UNCHANGED resp
     ELSE /\ Done(p, AfterLoop(l))
          /\ hist' = [hist EXCEPT ![p] = [h EXCEPT !.missing = 0, !.reported = ""]]

\* What the client sent to /ymp3, for hist.input.
Given(video_id, video_link) ==
  IF video_id \in {None, ""} /\ video_link \in {None, ""} THEN "neither" ELSE "given"

\* A request arrives at /ymp3 (lines 90-120): the link is resolved and the
\* submission call is issued, or the request is rejected.
Ymp3Start(p, video_id, video_link) ==
  /\ Free(p)
  /\ nreq < MaxRequests
  /\ nreq' = nreq + 1
  /\ handler' = [handler EXCEPT ![p] = "ymp3"]
  /\ LET full_link == IF Truthy(video_link) THEN video_link
                      ELSE IF Truthy(video_id) THEN WatchUrl(video_id) ELSE None
     IN /\ loc' = [loc EXCEPT ![p] =
                     [full_link |-> full_link, title |-> None, info |-> <<>>,
                      progress_url |-> None, download_url |-> None, wait_count |-> 0]]
        /\ IF ~Truthy(full_link)
           THEN /\ Done(p, HTTPException(400, "Missing video link or id"))
                /\ hist' = [hist EXCEPT ![p].input = Given(video_id, video_link)]
           ELSE /\ pc' = [pc EXCEPT ![p] = "submit"]
                /\ hist' = [hist EXCEPT ![p].input = Given(video_id, video_link),
                                        ![p].submit = @ + 1]
                /\ UNCHANGED resp
  /\ UNCHANGED <<cache, referenced>>

\* The test as "progress_url is None".
NoProgressUrl_IsNone(l) == l.progress_url = None

\* if not progress_url
NoProgressUrl(l) == ~Truthy(l.progress_url)

\* The submission call returns (lines 120-143).
Ymp3SubmitReturn(p, r) ==
  /\ handler[p] = "ymp3"
  /\ pc[p] = "submit"
  /\ CASE r.kind = "HTTPError" ->
            /\ Done(p, HTTPException(500, "Internal error while fetching MP3"))
            /\ hist' = [hist EXCEPT ![p].raised = r.kind]
            /\ UNCHANGED loc
       [] r.kind = "ValueError" ->
            /\ Done(p, Unhandled)
            /\ hist' = [hist EXCEPT ![p].raised = r.kind]
            /\ UNCHANGED loc
       [] r.kind = "json" ->
            LET fetch_data == r.data
                l == [loc[p] EXCEPT !.title = Get(fetch_data, "title", None),
                                    !.info = Get(fetch_data, "info", <<>>),
                                    !.progress_url = Get(fetch_data, "progress_url", None)]
            IN IF NoProgressUrl(l)
               THEN /\ Done(p, HTTPException(500, "Failed to start conversion")
                                 @@ [response |-> fetch_data])
                    /\ loc' = [loc EXCEPT ![p] = l]
                    /\ hist' = [hist EXCEPT ![p].parsed = @ + 1]
               ELSE LoopHead(p, [l EXCEPT !.download_url = None, !.wait_count = 0],
                             [hist[p] EXCEPT !.parsed = @ + 1])
  /\ UNCHANGED <<handler, cache, referenced, nreq>>

\* A progress fetch returns (lines 143-152): the response is classified,
\* and the request either leaves the loop with the link or goes to sleep.
Ymp3PollReturn(p, r) ==
  /\ handler[p] = "ymp3"
  /\ pc[p] = "poll"
  /\ CASE r.kind = "HTTPError" ->
            /\ Done(p, HTTPException(500, "Internal error while fetching MP3"))
            /\ hist' = [hist EXCEPT ![p].raised = r.kind]
            /\ UNCHANGED loc
       [] r.kind = "ValueError" ->
            /\ Done(p, Unhandled)
            /\ hist' = [hist EXCEPT ![p].raised = r.kind]
            /\ UNCHANGED loc
       [] r.kind = "json" ->
            LET prog_data == r.data
            IN IF IsReady(prog_data)
               THEN LET l == [loc[p] EXCEPT !.download_url = prog_data.download_url]
                    IN /\ loc' = [loc EXCEPT ![p] = l]
                       /\ Done(p, AfterLoop(l))
                       /\ hist' = [hist EXCEPT ![p].missing = Missing(prog_data),
                                               ![p].ready_url = prog_data.download_url]
               ELSE /\ pc' = [pc EXCEPT ![p] = "sleep"]
                    /\ hist' = [hist EXCEPT ![p].missing = Missing(prog_data),
                                            ![p].reported = Reported(prog_data),
                                            ![p].sleep = @ + 1]
                    /\ UNCHANGED <<loc, resp>>
  /\ UNCHANGED <<handler, cache, referenced, nreq>>

\* A second sleep in the loop body: the first sleep returns into another.
Ymp3SleepReturn_SleepsAgain(p) ==
  /\ handler[p] = "ymp3"
  /\ pc[p] = "sleep"
  /\ hist[p].sleep < 2 * hist[p].poll
  /\ hist' = [hist EXCEPT ![p].sleep = @ + 1]
  /\ UNCHANGED <<handler, pc, loc, resp, cache, referenced, nreq>>

\* asyncio.sleep(1.5) returns (lines 152-153, then the head of the loop).
Ymp3SleepReturn(p) ==
  /\ handler[p] = "ymp3"
  /\ pc[p] = "sleep"
  /\ LoopHead(p, [loc[p] EXCEPT !.wait_count = @ + 1], hist[p])
  /\ UNCHANGED <<handler, cache, referenced, nreq>>

(***************************************************************************)
(* GET /ytmp3: download_mp3_from_flvto.                                    *)
(***************************************************************************)
LinkShort == <<"h", "t", "t", "p", "s", ":", "/", "/", "y", "o", "u", "t", "u", ".", "b", "e", "/", "Z", "I", "l", "A", "L", "B", "1", "f", "Q", "V", "E">>
LinkWatch == <<"h", "t", "t", "p", "s", ":", "/", "/", "w", "w", "w", ".", "y", "o", "u", "t", "u", "b", "e", ".", "c", "o", "m", "/", "w", "a", "t", "c", "h", "?", "v", "=", "d", "Q", "w", "4", "w", "9", "W", "g", "X", "c", "Q">>
LinkBad == <<"h", "t", "t", "p", "s", ":", "/", "/", "e", "x", "a", "m", "p", "l", "e", ".", "c", "o", "m", "/", "Z", "I", "l", "A", "L", "B", "1", "f", "Q", "V", "E">>

\* The query strings a client may send: no link parameter, an empty one,
\* two links of different videos, a link of no recognized shape.
Queries == {<<>>} \cup {[link |-> l] : l \in {<<>>, LinkShort, LinkWatch, LinkBad}}

\* The titles the conversion backend may report; the two sanitize to the
\* same filename.
TitleSpace == <<"a", " ", "b">>
TitleUnder == <<"a", "_", "b">>
\* The JSON objects the conversion backend may answer with.
ConvertKeys == {"status", "link", "title"}
ConvertData ==
  { [k \in K |-> full[k]] :
      full \in [status : {"ok", "error"}, link : {"", "dl1"}, title : {TitleSpace, TitleUnder}],
      K \in SUBSET ConvertKeys }

\* The bytes a download may deliver.
Contents == {<<"x">>, <<"y", "y">>}
\* What the download call gives back: a response with a status code and a
\* body, or an httpx.HTTPError raised by the call.
AudioResponses == [kind : {"response"}, status_code : {200, 404}, content : Contents]

\* f"/cache/{filename}"
CacheRef(filename) == <<"/", "c", "a", "c", "h", "e", "/">> \o filename

\* The reference built from the title instead of the filename.
YtSuccess_TitleRef(message, l) ==
  [status |-> 200, message |-> message, music |-> CacheRef(l.title \o Ext_mp3),
   title |-> l.title, videoId |-> l.video_id]

\* The fields both success responses of /ytmp3 carry.
YtSuccess(message, l) ==
  [status |-> 200, message |-> message, music |-> CacheRef(l.filename),
   title |-> l.title, videoId |-> l.video_id]

\* The check made on the name without its extension.
FileExists_Stem(files, filename) == SubSeq(filename, 1, Len(filename) - Len(Ext_mp3)) \in DOMAIN files
\* The check inverted.
FileExists_Inverted(files, filename) == filename \notin DOMAIN files

\* file_path.exists() of the cache check
FileExists(files, filename) == filename \in DOMAIN files

\* The file name exists with the given bytes; the other files are untouched.
WithFile(files, name, bytes) ==
  [n \in DOMAIN files \cup {name} |-> IF n = name THEN bytes ELSE files[n]]

\* write(content) on a file opened with "wb": the bytes go to the start of
\* the file, over whatever another writer has put there since the open.
Overwrite(old, content) ==
  IF Len(old) <= Len(content) THEN content
  ELSE content \o SubSeq(old, Len(content) + 1, Len(old))

\* A request arrives at /ytmp3 (lines 183-241). A request without the
\* required parameter link is answered 422 by the framework and the function
\* does not run; otherwise the link is checked, the identifier extracted and
\* the conversion call issued.
YtStart(p, query) ==
  /\ Free(p)
  /\ nreq < MaxRequests
  /\ nreq' = nreq + 1
  /\ handler' = [handler EXCEPT ![p] = "ytmp3"]
  /\ IF "link" \notin DOMAIN query
     THEN /\ Done(p, [status |-> 422, message |-> "Field required"])
          /\ hist' = [hist EXCEPT ![p].input = "absent"]
          /\ UNCHANGED loc
     ELSE LET link == query.link
              video_id == extract_youtube_id(link)
          IN /\ loc' = [loc EXCEPT ![p] =
                          [link |-> link, video_id |-> video_id, response_data |-> <<>>,
                           download_url |-> None, title |-> <<>>, filename |-> <<>>,
                           content |-> <<>>]]
             /\ IF link = <<>>
                THEN /\ Done(p, HTTPException(400, "Missing \"link\" query parameter"))
                     /\ hist' = [hist EXCEPT ![p].input = "empty"]
                ELSE IF video_id = NoMatch
                THEN /\ Done(p, HTTPException(400, "Invalid YouTube link"))
                     /\ hist' = [hist EXCEPT ![p].input = "link"]
                ELSE /\ pc' = [pc EXCEPT ![p] = "convert"]
                     /\ hist' = [hist EXCEPT ![p].input = "link", ![p].convert = @ + 1]
                     /\ UNCHANGED resp
  /\ UNCHANGED <<cache, referenced>>

\* The check of the link alone.
ConversionFailed_LinkOnly(response_data) == ~Truthy(Get(response_data, "link", None))

\* response_data.get("status") != "ok" or not response_data.get("link")
ConversionFailed(response_data) ==
  \/ Get(response_data, "status", None) # "ok"
  \/ ~Truthy(Get(response_data, "link", None))

\* The conversion call returns (lines 237-277): the answer is checked, the
\* filename derived and the cache looked up; on a miss the download call is
\* issued.
YtConvertReturn(p, r) ==
  /\ handler[p] = "ytmp3"
  /\ pc[p] = "convert"
  /\ CASE r.kind = "HTTPError" ->
            /\ Done(p, HTTPException(500, "Internal server error"))
            /\ UNCHANGED <<loc, hist, referenced>>
       [] r.kind = "ValueError" ->
            /\ Done(p, Unhandled)
            /\ UNCHANGED <<loc, hist, referenced>>
       [] r.kind = "json" ->
            LET response_data == r.data
            IN IF ConversionFailed(response_data)
               THEN /\ Done(p, [status |-> 500, message |-> "Conversion failed",
                                response |-> response_data, videoId |-> loc[p].video_id])
                    /\ loc' = [loc EXCEPT ![p].response_data = response_data]
                    /\ hist' = [hist EXCEPT ![p].parsed = @ + 1]
                    /\ UNCHANGED referenced
               ELSE LET title == Get(response_data, "title", UnknownTitle)
                        l == [loc[p] EXCEPT !.response_data = response_data,
                                            !.download_url = response_data.link,
                                            !.title = title,
                                            !.filename = Filename(title)]
                    IN /\ loc' = [loc EXCEPT ![p] = l]
                       /\ IF FileExists(cache, l.filename)
                          THEN /\ Done(p, YtSuccess("Served from cache", l))
                               /\ hist' = [hist EXCEPT ![p].parsed = @ + 1,
                                                       ![p].exists = @ + 1,
                                                       ![p].seen = Get(cache, l.filename, <<>>)]
                               /\ referenced' = referenced \cup {l.filename}
                          ELSE /\ pc' = [pc EXCEPT ![p] = "download"]
                               /\ hist' = [hist EXCEPT ![p].parsed = @ + 1,
                                                       ![p].exists = @ + 1,
                                                       ![p].download = @ + 1]
                               /\ UNCHANGED <<resp, referenced>>
  /\ UNCHANGED <<handler, cache, nreq>>

\* The download without raise_for_status().
DownloadRaises_NoStatusCheck(r) == r.kind = "HTTPError"

\* client.get raises, or audio_resp.raise_for_status() does.
DownloadRaises(r) == r.kind = "HTTPError" \/ r.status_code \notin 200..299

\* The download call returns (lines 277-280): a status that is no success
\* makes raise_for_status raise an httpx.HTTPStatusError, which is an
\* httpx.HTTPError; otherwise the cache file is opened.
YtDownloadReturn(p, r) ==
  /\ handler[p] = "ytmp3"
  /\ pc[p] = "download"
  /\ IF DownloadRaises(r)
     THEN /\ Done(p, HTTPException(500, "Internal server error"))
          /\ UNCHANGED loc
     ELSE /\ pc' = [pc EXCEPT ![p] = "open"]
          /\ loc' = [loc EXCEPT ![p].content = r.content]
          /\ UNCHANGED resp
  /\ hist' = [hist EXCEPT ![p].audio =
                IF r.kind = "HTTPError" THEN "error"
                ELSE IF r.status_code \in 200..299 THEN "success" ELSE "status"]
  /\ UNCHANGED <<handler, cache, referenced, nreq>>

\* aiofiles.open(file_path, "wb") returns (line 280): the file exists and
\* is empty.
YtOpenReturn(p) ==
  /\ handler[p] = "ytmp3"
  /\ pc[p] = "open"
  /\ cache' = WithFile(cache, loc[p].filename, <<>>)
  /\ pc' = [pc EXCEPT ![p] = "write"]
  /\ hist' = [hist EXCEPT ![p].open = @ + 1]
  /\ UNCHANGED <<handler, loc, resp, referenced, nreq>>

\* f.write(audio_resp.content) returns (line 281), or raises an OSError,
\* which no handler catches and which leaves the file as it is.
YtWriteReturn(p, ok) ==
  /\ handler[p] = "ytmp3"
  /\ pc[p] = "write"
  /\ IF ok
     THEN /\ cache' = WithFile(cache, loc[p].filename,
                               Overwrite(cache[loc[p].filename], loc[p].content))
          /\ pc' = [pc EXCEPT ![p] = "close"]
          /\ hist' = [hist EXCEPT ![p].write = @ + 1]
          /\ UNCHANGED resp
     ELSE /\ Done(p, Unhandled)
          /\ UNCHANGED <<cache, hist>>
  /\ UNCHANGED <<handler, loc, referenced, nreq>>

\* The file is closed and the response built (lines 281-292).
YtCloseReturn(p) ==
  /\ handler[p] = "ytmp3"
  /\ pc[p] = "close"
  /\ Done(p, YtSuccess("YouTube downloaded successfully", loc[p]) @@ [source |-> "flvto.top"])
  /\ referenced' = referenced \cup {loc[p].filename}
  /\ UNCHANGED <<handler, loc, cache, hist, nreq>>

(***************************************************************************)
(* GET /cache/{filename}, GET / and GET /health: no await, one step each.  *)
(***************************************************************************)
DoesNotExist == <<"d", "o", "e", "s", "n", "o", "t", "e", "x", "i", "s", "t", ".", "m", "p", "3">>
\* The filenames a client may ask for.
FileNames == {Filename(TitleSpace), Filename(UnknownTitle), DoesNotExist}

\* The file looked up outside CACHE_PATH, where it never is.
get_cached_file_WrongDir(files, filename) == HTTPException(404, "File not found")

\* The response of get_cached_file (lines 309-317).
get_cached_file(files, filename) ==
  IF filename \notin DOMAIN files
  THEN HTTPException(404, "File not found")
  ELSE [status |-> 200, message |-> "FileResponse",
        filename |-> filename, body |-> files[filename]]

\* The endpoint creating the file it is asked for when it is not there.
GetCached_Creates(p, filename) ==
  /\ Free(p)
  /\ nreq < MaxRequests
  /\ nreq' = nreq + 1
  /\ handler' = [handler EXCEPT ![p] = "cache"]
  /\ loc' = [loc EXCEPT ![p] = [filename |-> filename]]
  /\ Done(p, get_cached_file(cache, filename))
  /\ cache' = IF filename \in DOMAIN cache THEN cache ELSE WithFile(cache, filename, <<>>)
  /\ UNCHANGED <<hist, referenced>>

\* A request arrives at /cache/{filename}.
GetCached(p, filename) ==
  /\ Free(p)
  /\ nreq < MaxRequests
  /\ nreq' = nreq + 1
  /\ handler' = [handler EXCEPT ![p] = "cache"]
  /\ loc' = [loc EXCEPT ![p] = [filename |-> filename]]
  /\ Done(p, get_cached_file(cache, filename))
  /\ UNCHANGED <<cache, hist, referenced>>

\* root (lines 319-328) and health_check (lines 330-332).
Static(p, name) ==
  /\ Free(p)
  /\ nreq < MaxRequests
  /\ nreq' = nreq + 1
  /\ handler' = [handler EXCEPT ![p] = name]
  /\ Done(p, [status |-> 200,
              message |-> IF name = "root" THEN "YouTube MP3 Downloader API" ELSE "healthy"])
  /\ UNCHANGED <<loc, cache, hist, referenced>>

\* The response of a finished request is sent and its slot is free again.
Respond(p) ==
  /\ pc[p] = "done"
  /\ handler' = [handler EXCEPT ![p] = "idle"]
  /\ pc' = [pc EXCEPT ![p] = "idle"]
  /\ loc' = [loc EXCEPT ![p] = NoLocals]
  /\ resp' = [resp EXCEPT ![p] = NoResponse]
  /\ hist' = [hist EXCEPT ![p] = NoCalls]
  /\ UNCHANGED <<cache, referenced, nreq>>

(***************************************************************************)
(* The pure functions applied to bounded inputs: one application at a      *)
(* time, in slot 1, with the argument and the result as its locals.        *)
(***************************************************************************)
\* Length of the titles enumerated in full.
MaxTitle == 3
\* Characters of the enumerated titles: kept ones, the underscore, and two
\* the substitution replaces.
TitleChars == {"a", "_", " ", "/", ".", Letter_e_acute}
Repeat(c, n) == [i \in 1..n |-> c]
\* Titles longer than the truncation, at its edge, and with longer runs of
\* underscores.
LongTitles ==
  { <<"/", " ", " ", " ">> \o Repeat("a", MaxStem + 50),
    Repeat("a", MaxStem - 1) \o <<" ", " ">>,
    Repeat("a", MaxStem - 1) \o <<" ", " ", "b">>,
    <<"_", "_", "_", "_", "_">>,
    <<"A", "-", "1", " ", "_", "/", " ", "b", ".", "z">> }
Titles == UNION {[1..n -> TitleChars] : n \in 0..MaxTitle} \cup LongTitles \cup {UnknownTitle}

\* title = response_data.get("title", ...) and the filename derived from it
\* (lines 255-260), for one title.
DeriveFilename(title) ==
  /\ \A q \in Procs : handler[q] = "idle"
  /\ handler' = [handler EXCEPT ![1] = "Filename"]
  /\ pc' = [pc EXCEPT ![1] = "done"]
  /\ loc' = [loc EXCEPT ![1] = [title |-> title, filename |-> Filename(title)]]
  /\ UNCHANGED <<resp, cache, hist, referenced, nreq>>

\* Identifiers, schemes and, for each of the ten shapes the comments of the
\* pattern list name, what stands before and after the identifier.
Id_A == <<"Z", "I", "l", "A", "L", "B", "1", "f", "Q", "V", "E">>
Id_B == <<"d", "Q", "w", "4", "w", "9", "W", "g", "X", "c", "Q">>
Id_C == <<"a", "-", "b", "_", "c", "1", "D", "2", "e", "3", "F">>
Id_D == <<"-", "_", "-", "_", "-", "_", "-", "_", "-", "_", "-">>
Ids == {Id_A, Id_B, Id_C, Id_D}
Schemes == {<<>>, <<"h", "t", "t", "p", "s", ":", "/", "/">>, <<"h", "t", "t", "p", ":", "/", "/">>}
Shapes ==
  << [before |-> <<"y", "o", "u", "t", "u", ".", "b", "e", "/">>, after |-> <<>>],
     [before |-> <<"y", "o", "u", "t", "u", "b", "e", ".", "c", "o", "m", "/", "w", "a", "t", "c", "h", "?", "v", "=">>, after |-> <<>>],
     [before |-> <<"y", "o", "u", "t", "u", "b", "e", ".", "c", "o", "m", "/", "v", "/">>, after |-> <<>>],
     [before |-> <<"y", "o", "u", "t", "u", "b", "e", ".", "c", "o", "m", "/", "e", "m", "b", "e", "d", "/">>, after |-> <<>>],
     [before |-> <<"y", "o", "u", "t", "u", "b", "e", ".", "c", "o", "m", "/", "s", "h", "o", "r", "t", "s", "/">>, after |-> <<>>],
     [before |-> <<"w", "w", "w", ".", "y", "o", "u", "t", "u", "b", "e", ".", "c", "o", "m", "/", "w", "a", "t", "c", "h", "?", "v", "=">>, after |-> <<>>],
     [before |-> <<"m", ".", "y", "o", "u", "t", "u", "b", "e", ".", "c", "o", "m", "/", "w", "a", "t", "c", "h", "?", "v", "=">>, after |-> <<>>],
     [before |-> <<"y", "o", "u", "t", "u", ".", "b", "e", "/">>, after |-> <<"?", "t", "=", "1">>],
     [before |-> <<"y", "o", "u", "t", "u", "b", "e", ".", "c", "o", "m", "/", "w", "a", "t", "c", "h", "?", "v", "=">>, after |-> <<"&", "t", "=", "1">>],
     [before |-> <<"y", "o", "u", "t", "u", "b", "e", ".", "c", "o", "m", "/", "w", "a", "t", "c", "h", "?", "t", "=", "1", "&", "v", "=">>, after |-> <<>>] >>
\* The links of the ten shapes, each with the identifier it embeds.
ShapeInputs ==
  { [kind |-> "shape", shape |-> k, id |-> id,
     link |-> scheme \o Shapes[k].before \o id \o Shapes[k].after] :
      scheme \in Schemes, k \in 1..Len(Shapes), id \in Ids }
\* Strings of no recognized shape: no link at all, another host, a bare
\* identifier, an identifier one character short or with a character outside
\* the class, another parameter or path, an upper-case host, a line break.
NonLinks ==
  { <<>>,
    <<"h", "t", "t", "p", "s", ":", "/", "/", "e", "x", "a", "m", "p", "l", "e", ".", "c", "o", "m", "/", "Z", "I", "l", "A", "L", "B", "1", "f", "Q", "V", "E">>,
    <<"Z", "I", "l", "A", "L", "B", "1", "f", "Q", "V", "E">>,
    <<"h", "t", "t", "p", "s", ":", "/", "/", "y", "o", "u", "t", "u", ".", "b", "e", "/", "Z", "I", "l", "A", "L", "B", "1", "f", "Q", "V">>,
    <<"h", "t", "t", "p", "s", ":", "/", "/", "y", "o", "u", "t", "u", ".", "b", "e", "/", "Z", "I", "l", "A", "L", "B", "1", "f", "Q", "V", "?", "t", "=", "1">>,
    <<"h", "t", "t", "p", "s", ":", "/", "/", "w", "w", "w", ".", "y", "o", "u", "t", "u", "b", "e", ".", "c", "o", "m", "/", "w", "a", "t", "c", "h", "?", "v", "=", "Z", "I", "l", "A", "L", "B", "1", "f", "Q", "V", "!">>,
    <<"h", "t", "t", "p", "s", ":", "/", "/", "w", "w", "w", ".", "y", "o", "u", "t", "u", "b", "e", ".", "c", "o", "m", "/", "w", "a", "t", "c", "h", "?", "x", "=", "Z", "I", "l", "A", "L", "B", "1", "f", "Q", "V", "E">>,
    <<"h", "t", "t", "p", "s", ":", "/", "/", "w", "w", "w", ".", "y", "o", "u", "t", "u", "b", "e", ".", "c", "o", "m", "/", "p", "l", "a", "y", "l", "i", "s", "t", "?", "l", "i", "s", "t", "=", "Z", "I", "l", "A", "L", "B", "1", "f", "Q", "V", "E">>,
    <<"h", "t", "t", "p", "s", ":", "/", "/", "Y", "O", "U", "T", "U", ".", "B", "E", "/", "Z", "I", "l", "A", "L", "B", "1", "f", "Q", "V", "E">>,
    <<"h", "t", "t", "p", "s", ":", "/", "/", "y", "o", "u", "t", "u", "b", "e", ".", "c", "o", "m", "/", "e", "m", "b", "e", "d", "?", "v", "=", "Z", "I", "l", "A", "L", "B", "1", "f", "Q", "V", "E">>,
    <<"h", "t", "t", "p", "s", ":", "/", "/", "y", "o", "u", "t", "u", ".", "b", "e">> \o <<"\n">> \o Id_A }
\* Links in which several patterns match with different groups, or one
\* pattern in several ways, each with the identifier the first pattern of
\* the list captures: a short link inside the query of a watch link, a
\* second parameter ending in v= after the v parameter, and an identifier
\* followed by more identifier characters.
SeveralInputs ==
  { [kind |-> "several", shape |-> 0, id |-> Id_B,
     link |-> <<"h", "t", "t", "p", "s", ":", "/", "/", "w", "w", "w", ".", "y", "o", "u", "t", "u", "b", "e", ".", "c", "o", "m", "/", "w", "a", "t", "c", "h", "?", "v", "=">> \o Id_A
              \o <<"&", "u", "=", "y", "o", "u", "t", "u", ".", "b", "e", "/">> \o Id_B],
    [kind |-> "several", shape |-> 0, id |-> Id_B,
     link |-> <<"h", "t", "t", "p", "s", ":", "/", "/", "w", "w", "w", ".", "y", "o", "u", "t", "u", "b", "e", ".", "c", "o", "m", "/", "w", "a", "t", "c", "h", "?", "t", "=", "1", "&", "v", "=">> \o Id_A
              \o <<"&", "r", "v", "=">> \o Id_B],
    [kind |-> "several", shape |-> 0, id |-> Id_A,
     link |-> <<"h", "t", "t", "p", "s", ":", "/", "/", "y", "o", "u", "t", "u", ".", "b", "e", "/">> \o Id_A \o <<"X", "Y", "Z">>] }
Inputs ==
  ShapeInputs \cup SeveralInputs
    \cup {[kind |-> "none", shape |-> 0, id |-> NoMatch, link |-> l] : l \in NonLinks}

\* extract_youtube_id(link) for one input; the input is kept with the result.
ExtractId(input) ==
  /\ \A q \in Procs : handler[q] = "idle"
  /\ handler' = [handler EXCEPT ![1] = "extract_youtube_id"]
  /\ pc' = [pc EXCEPT ![1] = "done"]
  /\ loc' = [loc EXCEPT ![1] = input @@ [video_id |-> extract_youtube_id(input.link)]]
  /\ UNCHANGED <<resp, cache, hist, referenced, nreq>>

Init ==
  /\ handler = [p \in Procs |-> "idle"]
  /\ pc = [p \in Procs |-> "idle"]
  /\ loc = [p \in Procs |-> NoLocals]
  /\ resp = [p \in Procs |-> NoResponse]
  /\ hist = [p \in Procs |-> NoCalls]
  /\ cache = <<>>
  /\ referenced = {}
  /\ nreq = 0

\* The steps of requests to /ymp3.
NextYmp3 ==
  \/ \E p \in Procs, video_id \in IdParams, video_link \in LinkParams :
       Ymp3Start(p, video_id, video_link)
  \/ \E p \in Procs, r \in {Json(d) : d \in FetchData} \cup {TransportError, BadBody} :
       Ymp3SubmitReturn(p, r)
  \/ \E p \in Procs, r \in {Json(d) : d \in ProgData} \cup {TransportError, BadBody} :
       Ymp3PollReturn(p, r)
  \/ \E p \in Procs : Ymp3SleepReturn(p)

\* The steps of requests to /ytmp3 and to /cache/{filename}.
NextYt ==
  \/ \E p \in Procs, query \in Queries : YtStart(p, query)
  \/ \E p \in Procs, r \in {Json(d) : d \in ConvertData} \cup {TransportError, BadBody} :
       YtConvertReturn(p, r)
  \/ \E p \in Procs, r \in AudioResponses \cup {TransportError} : YtDownloadReturn(p, r)
  \/ \E p \in Procs : YtOpenReturn(p)
  \/ \E p \in Procs, ok \in BOOLEAN : YtWriteReturn(p, ok)
  \/ \E p \in Procs : YtCloseReturn(p)
  \/ \E p \in Procs, filename \in FileNames : GetCached(p, filename)

Next ==
  \/ NextYmp3
  \/ NextYt
  \/ \E p \in Procs, name \in {"root", "health"} : Static(p, name)
  \/ \E p \in Procs : Respond(p)

\* The server with every endpoint.
Spec == Init /\ [][Next]_vars
\* The server when clients call /ymp3 only.
SpecYmp3 == Init /\ [][NextYmp3 \/ \E p \in Procs : Respond(p)]_vars
\* SpecYmp3 when every awaited call returns: the event loop resumes a
\* request whose submission call, progress fetch or sleep has completed.
SpecYmp3Live ==
  /\ SpecYmp3
  /\ \A p \in Procs :
       /\ WF_vars(\E r \in {Json(d) : d \in FetchData} \cup {TransportError, BadBody} :
                    Ymp3SubmitReturn(p, r))
       /\ WF_vars(\E r \in {Json(d) : d \in ProgData} \cup {TransportError, BadBody} :
                    Ymp3PollReturn(p, r))
       /\ WF_vars(Ymp3SleepReturn(p))
\* The server when clients call /ytmp3 and /cache/{filename} only.
SpecYt == Init /\ [][NextYt \/ \E p \in Procs : Respond(p)]_vars
\* The filename derivation alone, over the titles of the model.
SpecFilename ==
  Init /\ [][(\E title \in Titles : DeriveFilename(title)) \/ Respond(1)]_vars
\* The identifier extraction alone, over the inputs of the model.
SpecExtract ==
  Init /\ [][(\E input \in Inputs : ExtractId(input)) \/ Respond(1)]_vars
(***************************************************************************)
(* Properties.                                                             *)
(***************************************************************************)
IsYmp3(p) == handler[p] = "ymp3"
IsYt(p) == handler[p] = "ytmp3"
Timeout == "Conversion timeout - please try again"

\* C1: in the poll loop a progress response is taken as ready if and only
\* if the success flag is truthy, the progress is at least 1000 and the
\* download_url is populated, all three at once; a response that misses at
\* least one of them leaves the request without a link and puts it to sleep.
C1_ReadyIffAllThree ==
  \A p \in Procs : IsYmp3(p) =>
    /\ pc[p] = "sleep" =>
         hist[p].missing > 0 /\ ~Truthy(loc[p].download_url) /\ hist[p].ready_url = None
    /\ hist[p].missing > 0 => pc[p] = "sleep"
    /\ hist[p].ready_url # None =>
         hist[p].missing = 0 /\ pc[p] = "done" /\ loc[p].download_url = hist[p].ready_url

\* A response that misses exactly one condition has put a request, which
\* had polled before, to sleep.
C1_Witness ==
  \E p \in Procs : IsYmp3(p) /\ pc[p] = "sleep" /\ hist[p].missing = 1 /\ hist[p].poll >= 2

\* C2: a /ymp3 request whose 30 polls were all classified as not ready ends
\* with the 500 "Conversion timeout" error, and a success response carries
\* the download_url of a response classified ready in the same request.
C2_TimeoutOrReadyLink ==
  \A p \in Procs : IsYmp3(p) /\ pc[p] = "done" =>
    /\ resp[p].status = 200 =>
         hist[p].ready_url # None /\ resp[p].download = hist[p].ready_url
    /\ hist[p].sleep = max_attempts =>
         resp[p].status = 500 /\ resp[p].message = Timeout
    /\ resp[p].message = Timeout =>
         hist[p].poll = max_attempts /\ hist[p].sleep = max_attempts /\ hist[p].ready_url = None

\* A request has timed out after max_attempts polls.
C2_Witness ==
  \E p \in Procs : IsYmp3(p) /\ pc[p] = "done" /\ resp[p].message = Timeout
                   /\ hist[p].poll = max_attempts

\* C6: a /ymp3 request whose submission response has no progress URL fails
\* at once with the 500 "Failed to start conversion" error, with no
\* progress fetch and no sleep; and that error is given in no other case.
C6_NoProgressUrlFailsAtOnce ==
  \A p \in Procs : IsYmp3(p) =>
    /\ hist[p].parsed = 1 /\ loc[p].progress_url \in {None, ""} =>
         /\ pc[p] = "done"
         /\ resp[p].status = 500 /\ resp[p].message = "Failed to start conversion"
         /\ hist[p].poll = 0 /\ hist[p].sleep = 0
    /\ resp[p].message = "Failed to start conversion" =>
         /\ hist[p].parsed = 1 /\ hist[p].poll = 0 /\ hist[p].sleep = 0
         /\ Get(resp[p].response, "progress_url", None) \in {None, ""}

\* A submission response with an empty progress URL has failed a request.
C6_Witness ==
  \E p \in Procs : IsYmp3(p) /\ pc[p] = "done" /\ hist[p].parsed = 1
                   /\ loc[p].progress_url = ""
                   /\ resp[p].message = "Failed to start conversion"
\* The filename the code derives for the conversion response of request p.
Derived(p) == Filename(Get(loc[p].response_data, "title", UnknownTitle))
\* The conversion response reports status "ok" and has a populated link.
ExplicitSuccess(d) ==
  /\ "status" \in DOMAIN d /\ d.status = "ok"
  /\ "link" \in DOMAIN d /\ d.link # ""
\* Request p takes the step in which its conversion response is parsed and
\* found to be a success, so that the existence check runs.
ChecksCache(p) == IsYt(p) /\ pc[p] = "convert" /\ hist'[p].exists = 1

\* C3: a /ytmp3 request that finds the derived filename in the cache when
\* it checks returns "Served from cache" in that step, having issued its
\* conversion call but no download call, and it writes nothing to the cache.
C3_CacheHitSkipsDownload ==
  /\ [](\A p \in Procs : IsYt(p) /\ resp[p].message = "Served from cache" =>
          /\ pc[p] = "done" /\ resp[p].status = 200
          /\ hist[p].convert = 1 /\ hist[p].download = 0
          /\ hist[p].open = 0 /\ hist[p].write = 0)
  /\ [][\A p \in Procs : ChecksCache(p) /\ loc'[p].filename \in DOMAIN cache =>
          /\ pc'[p] = "done" /\ resp'[p].message = "Served from cache"
          /\ hist'[p].download = 0
          /\ cache' = cache]_vars

\* The second of two sequential requests is served from the cache, from a
\* file an earlier request has written in full.
C3_Witness ==
  \E p \in Procs :
    /\ IsYt(p) /\ pc[p] = "done" /\ resp[p].message = "Served from cache"
    /\ nreq = 2 /\ \A q \in Procs \ {p} : handler[q] = "idle"
    /\ hist[p].convert = 1 /\ hist[p].download = 0
    /\ cache[loc[p].filename] \in Contents

\* C4 (as claimed): a request with a client input error ends with 400 and
\* has issued no network call and made no cache access: /ytmp3 with the link
\* missing or with a link no identifier can be extracted from, /ymp3 with
\* neither id nor link.
C4_ClientErrorIs400BeforeNetwork ==
  \A p \in Procs : pc[p] = "done" =>
    /\ ( IsYt(p) /\ ( \/ hist[p].input \in {"absent", "empty"}
                      \/ hist[p].input = "link" /\ extract_youtube_id(loc[p].link) = NoMatch ) ) =>
         /\ resp[p].status = 400
         /\ hist[p].convert = 0 /\ hist[p].download = 0
         /\ hist[p].exists = 0 /\ hist[p].open = 0 /\ hist[p].write = 0
    /\ ( IsYmp3(p) /\ hist[p].input = "neither" ) =>
         /\ resp[p].status = 400
         /\ hist[p].submit = 0 /\ hist[p].poll = 0

\* The part of C4 the code keeps: a request answered with a client error
\* (400, or the framework's 422) has issued no network call and made no
\* cache access.
C4_NoCallOnClientError ==
  \A p \in Procs : pc[p] = "done" /\ resp[p].status \in {400, 422} =>
    /\ hist[p].submit = 0 /\ hist[p].poll = 0 /\ hist[p].sleep = 0
    /\ hist[p].convert = 0 /\ hist[p].download = 0
    /\ hist[p].exists = 0 /\ hist[p].open = 0 /\ hist[p].write = 0

\* C5: a /ytmp3 request whose conversion response does not report status
\* "ok" with a populated link ends with the 500 "Conversion failed" error,
\* which carries the response and the identifier; it has not checked the
\* cache, issued no download call and its step leaves the cache unchanged.
C5_ConversionFailure ==
  /\ [](\A p \in Procs : IsYt(p) /\ hist[p].parsed = 1 /\ ~ExplicitSuccess(loc[p].response_data) =>
          /\ pc[p] = "done"
          /\ resp[p] = [status |-> 500, message |-> "Conversion failed",
                        response |-> loc[p].response_data,
                        videoId |-> extract_youtube_id(loc[p].link)]
          /\ hist[p].exists = 0 /\ hist[p].download = 0
          /\ hist[p].open = 0 /\ hist[p].write = 0)
  /\ [](\A p \in Procs : IsYt(p) /\ resp[p].message = "Conversion failed" =>
          hist[p].parsed = 1 /\ ~ExplicitSuccess(resp[p].response))
  /\ [][\A p \in Procs : IsYt(p) /\ pc[p] = "convert" /\ resp'[p].message = "Conversion failed" =>
          cache' = cache]_vars

\* A response with status "error" and a link has failed a request.
C5_Witness ==
  \E p \in Procs :
    /\ IsYt(p) /\ pc[p] = "done" /\ resp[p].message = "Conversion failed"
    /\ Get(loc[p].response_data, "status", None) = "error"
    /\ Get(loc[p].response_data, "link", None) = "dl1"

\* C7: every successful /ytmp3 response references /cache/<derived
\* filename>, and a file of that name exists in the cache from the moment
\* the response is produced; the response of a request that downloaded has
\* the file written before, and the source tag is there exactly then.
C7_SuccessReferencesCachedFile ==
  \A p \in Procs : IsYt(p) /\ pc[p] = "done" /\ resp[p].status = 200 =>
    /\ resp[p].music = CacheRef(Derived(p))
    /\ Derived(p) \in DOMAIN cache
    /\ ("source" \in DOMAIN resp[p]) <=> (hist[p].download = 1 /\ hist[p].write = 1)
    /\ ("source" \notin DOMAIN resp[p]) <=> (hist[p].download = 0 /\ hist[p].write = 0)
    /\ resp[p].message \in {"Served from cache", "YouTube downloaded successfully"}
    /\ (resp[p].message = "Served from cache") <=> (hist[p].download = 0)

\* One request has answered after its download and another from the cache.
C7_Witness ==
  \E p, q \in Procs :
    /\ IsYt(p) /\ pc[p] = "done" /\ resp[p].message = "YouTube downloaded successfully"
    /\ IsYt(q) /\ pc[q] = "done" /\ resp[q].message = "Served from cache"
    /\ loc[p].title # loc[p].filename

\* C8: a /ytmp3 request whose download call raises or returns a status
\* that is no success ends with the 500 "Internal server error" error,
\* which is not the message of a conversion failure; the request has opened
\* and written no file, and its step leaves the cache unchanged.
C8_DownloadFailure ==
  /\ [](\A p \in Procs : IsYt(p) /\ hist[p].audio \in {"error", "status"} =>
          /\ pc[p] = "done"
          /\ resp[p].status = 500 /\ resp[p].message = "Internal server error"
          /\ resp[p].message # "Conversion failed"
          /\ hist[p].exists = 1 /\ hist[p].download = 1
          /\ hist[p].open = 0 /\ hist[p].write = 0)
  /\ [][\A p \in Procs : IsYt(p) /\ pc[p] = "download" /\ hist'[p].audio \in {"error", "status"} =>
          cache' = cache]_vars

\* A download answered with an error status has failed a request, and no
\* file of the derived name exists.
C8_Witness ==
  \E p \in Procs :
    /\ IsYt(p) /\ pc[p] = "done" /\ hist[p].audio = "status"
    /\ loc[p].filename \notin DOMAIN cache

\* C9: nothing coordinates requests: a /ytmp3 request that finds no file of
\* the derived name when it checks issues its download call, whatever other
\* requests are doing; so two requests for one filename can both miss, both
\* download and both write (the witness).
C9_MissAlwaysDownloads ==
  [][\A p \in Procs : ChecksCache(p) /\ loc'[p].filename \notin DOMAIN cache =>
       pc'[p] = "download" /\ hist'[p].download = 1]_vars

\* Two requests in flight for the same filename have both missed the check,
\* both issued the download call and both written the file.
C9_Witness ==
  \E p, q \in Procs :
    /\ p # q /\ IsYt(p) /\ IsYt(q)
    /\ hist[p].exists = 1 /\ hist[p].download = 1 /\ hist[p].write = 1
    /\ hist[q].exists = 1 /\ hist[q].download = 1 /\ hist[q].write = 1
    /\ loc[p].filename = loc[q].filename

\* A request arrives at /cache/{filename} and is answered.
GetsCached(p) == handler[p] = "idle" /\ handler'[p] = "cache"

\* C10: no step removes a file from the cache; a filename a successful
\* /ytmp3 response has referenced exists from then on, and a later GET
\* /cache/F for it serves the file; a GET /cache/F for a filename that is
\* not in the cache returns 404 and leaves the cache unchanged.
C10_CacheOnlyGrows ==
  /\ [](referenced \subseteq DOMAIN cache)
  /\ [][DOMAIN cache \subseteq DOMAIN cache']_vars
  /\ [][\A p \in Procs : GetsCached(p) =>
          /\ loc'[p].filename \in referenced =>
               /\ resp'[p].status = 200
               /\ resp'[p].filename = loc'[p].filename
               /\ resp'[p].body = cache[loc'[p].filename]
          /\ loc'[p].filename \notin DOMAIN cache =>
               /\ resp'[p].status = 404 /\ resp'[p].message = "File not found"
               /\ cache' = cache]_vars

\* A file a /ytmp3 response has referenced is served by GET /cache/F.
C10_Witness ==
  \E p \in Procs :
    /\ handler[p] = "cache" /\ pc[p] = "done" /\ resp[p].status = 200
    /\ loc[p].filename \in referenced

\* The characters a filename stem may contain: letters, digits, hyphen,
\* underscore and period.
AllowedChars ==
  Range(Lower) \cup Range(Upper) \cup Range(Digits) \cup {Letter_e_acute, "-", "_", "."}
\* Every character outside the allowed ones replaced by an underscore.
Substituted(t) == [i \in 1..Len(t) |-> IF t[i] \in AllowedChars THEN t[i] ELSE "_"]
\* One left-to-right pass that turns each doubled underscore it meets into
\* one underscore and goes on after it.
RECURSIVE CollapseOnce(_)
CollapseOnce(s) ==
  IF Len(s) < 2 THEN s
  ELSE IF s[1] = "_" /\ s[2] = "_" THEN <<"_">> \o CollapseOnce(SubSeq(s, 3, Len(s)))
  ELSE <<s[1]>> \o CollapseOnce(Tail(s))
\* The number of underscores one pass removes from s: half of each maximal
\* run of underscores, rounded down.
RunEnds(s) == {i \in 1..Len(s) : s[i] = "_" /\ (i = Len(s) \/ s[i + 1] # "_")}
RunLen(s, e) == e - Max({j \in 0..e : j = 0 \/ s[j] # "_"})
Removed(s) == LET ends == RunEnds(s)
                  halves == [e \in ends |-> RunLen(s, e) \div 2]
                  RECURSIVE Sum(_)
                  Sum(S) == IF S = {} THEN 0
                            ELSE LET e == CHOOSE x \in S : TRUE IN halves[e] + Sum(S \ {e})
              IN Sum(ends)
\* The stem of a filename: the filename without its last four characters.
Stem(f) == SubSeq(f, 1, Len(f) - Len(Ext_mp3))
\* The titles short enough for the pass to be followed character by
\* character.
ShortTitle == 10

\* C11: the filename derived from a title has at most 204 characters, ends
\* in ".mp3", and its stem contains only letters, digits, hyphens,
\* underscores and periods; the stem is the title with every other character
\* replaced by an underscore, doubled underscores collapsed in one single
\* left-to-right pass, cut to 200 characters.
C11_FilenameDerivation ==
  \A p \in Procs : handler[p] = "Filename" =>
    LET t == loc[p].title
        f == loc[p].filename
        n == Len(t) - Removed(Substituted(t))
    IN /\ Len(f) <= MaxStem + 4
       /\ Len(f) >= Len(Ext_mp3) /\ SubSeq(f, Len(f) - 3, Len(f)) = <<".", "m", "p", "3">>
       /\ \A i \in 1..Len(Stem(f)) : Stem(f)[i] \in AllowedChars
       /\ Len(Stem(f)) = IF n < MaxStem THEN n ELSE MaxStem
       /\ Len(t) <= ShortTitle => Stem(f) = CollapseOnce(Substituted(t))

\* A title longer than 200 characters, with a character that is replaced
\* and a run of four underscores after the replacement, has got its
\* filename: 204 characters, with a doubled underscore left in it.
C11_Witness ==
  \E p \in Procs :
    /\ handler[p] = "Filename" /\ pc[p] = "done"
    /\ Len(loc[p].title) > MaxStem
    /\ loc[p].title[1] \notin AllowedChars
    /\ Len(loc[p].filename) = MaxStem + 4
    /\ loc[p].filename[1] = "_" /\ loc[p].filename[2] = "_" /\ loc[p].filename[3] # "_"

\* Pattern k of the list matches somewhere in the link.
Matches(k, link) == re_search(patterns[k], link) # NoMatch

\* C12: extract_youtube_id returns the eleven characters captured by the
\* first pattern of the list that matches; for a link of each of the ten
\* shapes that is the identifier the link embeds, and for a string no
\* pattern matches it returns None.
C12_ExtractsEmbeddedId ==
  \A p \in Procs : handler[p] = "extract_youtube_id" =>
    LET i == loc[p]
    IN /\ i.kind = "shape" => i.video_id = i.id /\ Len(i.video_id) = 11
       /\ i.kind = "none" => i.video_id = NoMatch
       /\ i.kind = "several" => i.video_id = i.id
       /\ \A k \in 1..Len(patterns) :
            Matches(k, i.link) /\ (\A j \in 1..(k - 1) : ~Matches(j, i.link)) =>
              i.video_id = re_search(patterns[k], i.link)
       /\ (i.video_id = NoMatch) <=> (\A k \in 1..Len(patterns) : ~Matches(k, i.link))
       /\ Len(patterns) = 10

\* The identifier has been extracted from a link in which two patterns
\* match with different groups: it is the group of the earlier pattern.
C12_Witness ==
  \E p \in Procs :
    /\ handler[p] = "extract_youtube_id" /\ pc[p] = "done"
    /\ \E j, k \in 1..Len(patterns) :
         /\ j < k /\ Matches(j, loc[p].link) /\ Matches(k, loc[p].link)
         /\ \A h \in 1..(j - 1) : ~Matches(h, loc[p].link)
         /\ re_search(patterns[j], loc[p].link) # re_search(patterns[k], loc[p].link)
         /\ loc[p].video_id = re_search(patterns[j], loc[p].link)

\* Request p has ended with the success response of /ymp3.
Ymp3Success(p) == IsYmp3(p) /\ pc[p] = "done" /\ resp[p].status = 200

\* C13 (as claimed): on a successful /ymp3 response, waited is the number
\* of progress fetches the request issued, the one found ready included.
C13_WaitedIsFetches ==
  \A p \in Procs : Ymp3Success(p) => resp[p].waited = hist[p].poll

\* C13 (amended): on a successful /ymp3 response, waited is the number of
\* sleeps of the request, which is the number of progress fetches before the
\* one found ready: one less than the number of fetches issued, and 0 to 29.
C13_WaitedIsSleeps ==
  \A p \in Procs : Ymp3Success(p) =>
    /\ resp[p].waited = hist[p].sleep
    /\ resp[p].waited = hist[p].poll - 1
    /\ resp[p].waited \in 0..(max_attempts - 1)

\* A request has succeeded on its third progress fetch, after two sleeps.
C13_Witness ==
  \E p \in Procs : Ymp3Success(p) /\ hist[p].poll = 3 /\ resp[p].waited = 2

\* The four outcomes of the claim, as status and message.
FourOutcomes ==
  { <<200, "MP3 link ready">>,
    <<500, "Failed to start conversion">>,
    <<500, "Conversion timeout - please try again">>,
    <<500, "Internal error while fetching MP3">> }

\* C14 (as claimed): every /ymp3 request that has issued its submission
\* call ends in one of four outcomes: success, "Failed to start conversion",
\* "Conversion timeout" or "Internal error while fetching MP3".
C14_OneOfFourOutcomes ==
  \A p \in Procs : IsYmp3(p) /\ pc[p] = "done" /\ hist[p].submit = 1 =>
    <<resp[p].status, resp[p].message>> \in FourOutcomes

\* The part of C14 the code keeps: an httpx.HTTPError raised by the
\* submission call or by a progress fetch ends the request in that step with
\* the 500 "Internal error while fetching MP3" response, with no fetch or
\* sleep issued after it, and that response is given in no other case.
C14_TransportErrorEndsAtOnce ==
  /\ [](\A p \in Procs : IsYmp3(p) =>
          /\ hist[p].raised = "HTTPError" =>
               /\ pc[p] = "done"
               /\ resp[p] = [status |-> 500, message |-> "Internal error while fetching MP3"]
          /\ resp[p].message = "Internal error while fetching MP3" =>
               hist[p].raised = "HTTPError")
  /\ [][\A p \in Procs : IsYmp3(p) /\ hist'[p].raised = "HTTPError" /\ hist[p].raised = "" =>
          /\ pc[p] \in {"submit", "poll"}
          /\ hist'[p].poll = hist[p].poll /\ hist'[p].sleep = hist[p].sleep
          /\ hist'[p].submit = hist[p].submit]_vars

\* C15 (as claimed): a /ymp3 request whose progress response reports a
\* failure is not kept polling: it ends, with an outcome that is not the
\* timeout.
C15_FailureEndsRequest ==
  \A p \in Procs : IsYmp3(p) /\ hist[p].reported = "failure" =>
    pc[p] = "done" /\ resp[p].status = 500 /\ resp[p].message # Timeout

\* What the code does instead: every progress response that is not ready,
\* a reported failure included, puts the request to sleep to fetch again
\* (or to time out).
C15_FailureIsPending ==
  \A p \in Procs : IsYmp3(p) /\ hist[p].reported = "failure" =>
    pc[p] = "sleep" /\ hist[p].missing > 0 /\ resp[p] = NoResponse

\* C16: every /ymp3 request whose calls return comes to its end; it issues
\* at most one submission call (one once it is accepted), at most 30
\* progress fetches and at most 30 sleeps; fetches and sleeps alternate, a
\* fetch after the first being issued when a sleep returns and a sleep only
\* after a fetch that was not ready; no sleep follows the ready fetch.
C16_BoundedPolling ==
  /\ \A p \in Procs : IsYmp3(p) ~> (pc[p] = "done")
  /\ [](\A p \in Procs : IsYmp3(p) =>
          /\ hist[p].submit <= 1
          /\ (pc[p] # "done" \/ resp[p].status # 400) => hist[p].submit = 1
          /\ hist[p].poll <= max_attempts /\ hist[p].sleep <= max_attempts
          /\ pc[p] = "poll" => hist[p].sleep = hist[p].poll - 1
          /\ pc[p] = "sleep" => hist[p].sleep = hist[p].poll
          /\ hist[p].ready_url # None => pc[p] = "done" /\ hist[p].sleep = hist[p].poll - 1)
  /\ [][\A p \in Procs : IsYmp3(p) /\ pc[p] # "done" =>
          /\ hist'[p].poll # hist[p].poll =>
               /\ hist'[p].poll = hist[p].poll + 1
               /\ pc[p] = IF hist[p].poll = 0 THEN "submit" ELSE "sleep"
               /\ pc'[p] = "poll"
          /\ hist'[p].sleep # hist[p].sleep =>
               /\ hist'[p].sleep = hist[p].sleep + 1
               /\ pc[p] = "poll" /\ pc'[p] = "sleep" /\ hist'[p].ready_url = None]_vars

\* Two requests have come to their ends: one with the link, found on a
\* fetch after a sleep, the other timed out after 30 fetches and 30 sleeps.
C16_Witness ==
  \E p, q \in Procs :
    /\ IsYmp3(p) /\ pc[p] = "done" /\ hist[p].ready_url # None
    /\ hist[p].poll >= 2 /\ hist[p].sleep = hist[p].poll - 1
    /\ IsYmp3(q) /\ pc[q] = "done" /\ resp[q].message = Timeout
    /\ hist[q].poll = max_attempts /\ hist[q].sleep = max_attempts

\* Request q has downloaded and stored its file and has its response, and
\* the file holds the bytes q downloaded.
Populated(q) ==
  /\ IsYt(q) /\ pc[q] = "done" /\ resp[q].message = "YouTube downloaded successfully"
  /\ cache[loc[q].filename] = loc[q].content

\* C17: the titles "a b" and "a_b" of two different videos give one
\* filename; a /ytmp3 request for one video that checks the cache after a
\* request for the other has stored its file there is answered "Served from
\* cache" in that step, with the reference the first response gave, with no
\* download call, and the file keeps the bytes of the first video.
C17_CollidingTitlesShareSlot ==
  /\ [](\A p, q \in Procs :
          /\ IsYt(p) /\ hist[p].exists = 1 /\ IsYt(q) /\ hist[q].exists = 1
          /\ loc[p].title = TitleSpace /\ loc[q].title = TitleUnder
          => loc[p].filename = loc[q].filename)
  /\ [][\A p, q \in Procs :
          /\ Populated(q) /\ ChecksCache(p)
          /\ loc'[p].video_id # loc[q].video_id /\ loc'[p].title # loc[q].title
          /\ loc'[p].filename = loc[q].filename
          => /\ pc'[p] = "done" /\ resp'[p].status = 200
             /\ resp'[p].message = "Served from cache"
             /\ resp'[p].music = resp[q].music
             /\ resp'[p].videoId = loc'[p].video_id
             /\ hist'[p].download = 0 /\ hist'[p].open = 0
             /\ cache' = cache /\ cache'[loc'[p].filename] = loc[q].content]_vars

\* A request for one video has stored its file, and a request for another
\* video, which arrived after that, has been served that file from the
\* cache.
C17_Witness ==
  \E p, q \in Procs :
    /\ Populated(q)
    /\ IsYt(p) /\ pc[p] = "done" /\ resp[p].message = "Served from cache"
    /\ loc[p].video_id # loc[q].video_id /\ loc[p].title # loc[q].title
    /\ resp[p].music = resp[q].music /\ hist[p].download = 0
    /\ cache[loc[p].filename] = loc[q].content

\* The step is one of the request in slot p.
Moves(p) ==
  <<handler'[p], pc'[p], loc'[p], resp'[p], hist'[p]>> # <<handler[p], pc[p], loc[p], resp[p], hist[p]>>
\* The endpoints other than /ytmp3.
OtherHandlers == {"ymp3", "root", "health", "cache"}

\* C18: no step of a request to /ymp3, /, /health or /cache/{filename}
\* changes the cache, and such a request makes no existence check of the
\* /ytmp3 flow, opens and writes no file; every step that changes the cache
\* is the opening or the writing of the file by a /ytmp3 request that missed
\* the cache and whose download succeeded, and it changes that file only.
C18_OnlyYtmp3WritesCache ==
  /\ [](\A p \in Procs : handler[p] \in OtherHandlers =>
          hist[p].exists = 0 /\ hist[p].open = 0 /\ hist[p].write = 0)
  /\ [][\A p \in Procs :
          Moves(p) /\ (handler[p] \in OtherHandlers \/ handler'[p] \in OtherHandlers) =>
            cache' = cache]_vars
  /\ [][cache' # cache =>
          \E p \in Procs :
            /\ IsYt(p) /\ Moves(p) /\ pc[p] \in {"open", "write"}
            /\ hist[p].exists = 1 /\ hist[p].download = 1 /\ hist[p].audio = "success"
            /\ DOMAIN cache' = DOMAIN cache \cup {loc[p].filename}
            /\ \A f \in DOMAIN cache \ {loc[p].filename} : cache'[f] = cache[f]]_vars

\* A /ymp3 request is polling while a /ytmp3 request has written its file.
C18_Witness ==
  \E p, q \in Procs :
    /\ IsYmp3(p) /\ pc[p] = "sleep" /\ hist[p].poll >= 1
    /\ IsYt(q) /\ hist[q].write = 1 /\ loc[q].filename \in DOMAIN cache

\* Request p has been served a file: by /ytmp3 from the cache, or by GET
\* /cache/{filename}; and the bytes the file held when it was served.
Served(p) ==
  \/ IsYt(p) /\ pc[p] = "done" /\ resp[p].message = "Served from cache"
  \/ handler[p] = "cache" /\ pc[p] = "done" /\ resp[p].status = 200
ServedBytes(p) == IF IsYt(p) THEN hist[p].seen ELSE resp[p].body

\* C19 (as claimed): whenever a /ytmp3 request is served from the cache or
\* GET /cache/F serves a file, the file holds the complete bytes of a
\* finished download.
C19_ServedFileIsComplete ==
  \A p \in Procs : Served(p) => ServedBytes(p) \in Contents

\* What the code gives instead: the file served holds what the opens and
\* writes made so far have left in it, which may be nothing, or the bytes of
\* two downloads mixed.
C19_ServedFileIsAnyBytes ==
  \A p \in Procs : Served(p) =>
    ServedBytes(p) \in Contents \cup {<<>>} \cup {Overwrite(old, new) : old, new \in Contents}
====
